---- MODULE Spec2Model ----
(***************************************************************************)
(* QA-Hub backend (src/backend/main.py): a FastAPI application over one    *)
(* SQLite file with four tables.  The model keeps the committed contents   *)
(* of the tables, the AUTOINCREMENT counters, the wall clock that          *)
(* CURRENT_TIMESTAMP reads, and the last request served with its response. *)
(*                                                                         *)
(* Every handler is an `async def` without an await, so inside one process *)
(* a handler runs to completion before the next one starts: one action per *)
(* handler.  Several processes on the same file are modelled separately    *)
(* (SpecRace), statement by statement.                                     *)
(*                                                                         *)
(* Numbers that are floats in the program are kept as scaled integers:     *)
(* random.random() in thousandths, passRate in tenths of a percent,        *)
(* avgDuration in hundredths of a second.                                  *)
(***************************************************************************)
EXTENDS Integers, Sequences, FiniteSets, TLC

VARIABLES tests, bugs, test_cases, automation_reports, sqlite_sequence,
          now, started, startups, op, arg, resp,
          pc, observed, pending, writer

vars == <<tests, bugs, test_cases, automation_reports, sqlite_sequence,
          now, started, startups, op, arg, resp,
          pc, observed, pending, writer>>

store == <<tests, bugs, test_cases, automation_reports, sqlite_sequence>>
race == <<pc, observed, pending, writer>>

----------------------------------------------------------------------------
(* Bounds of the exploration *)

MaxClock == 1
MaxStartups == 2
MaxTests == 10
MaxId == 3
MaxReports == 1
RandomPeriod == 2
MaxRows == 11
MaxOther == 1
RowsPerSecond == 4
NumProcs == 3

----------------------------------------------------------------------------
(* Program constants *)

NameLimit == 10
PassThreshold == 100
PassedLo == 100
PassedHi == 600
FailedLo == 3000
FailedHi == 5000
DefaultLimit == 50
Coverage == 850
NotFound == 404
Ok == 200

seed_tests ==
  << [name |-> "Login with valid credentials", status |-> "passed", duration |-> 245],
     [name |-> "Navigate to dashboard", status |-> "passed", duration |-> 312],
     [name |-> "Search functionality", status |-> "passed", duration |-> 189],
     [name |-> "User profile update", status |-> "passed", duration |-> 267],
     [name |-> "Logout flow", status |-> "passed", duration |-> 156] >>

seed_bugs ==
  << [title |-> "Login button not responsive on mobile", severity |-> "high",
      status |-> "open", assignee |-> "John"],
     [title |-> "Search returns empty results", severity |-> "critical",
      status |-> "in-progress", assignee |-> "Jane"] >>

seed_cases ==
  << [title |-> "Login Test", priority |-> "p1", status |-> "active"],
     [title |-> "Search Test", priority |-> "p2", status |-> "active"] >>

DefaultNames == << "Test 1", "Test 2", "Test 3" >>

----------------------------------------------------------------------------
(* Inputs of the requests, and the values the random source may yield *)

Limits == {-1, 0, 1, 3, DefaultLimit}
Ids == 1..(MaxId + 1)
BugInputs == { [title |-> "Crash on save", severity |-> "low",
                status |-> "open", assignee |-> "None"] }
CaseInputs == { [title |-> "Logout Test", priority |-> "p3", status |-> "active"] }
ReportInputs == { [suite_name |-> "smoke", total_tests |-> 3, passed |-> 2,
                   failed |-> 1, duration |-> 900, environment |-> "ci"] }

\* random.random() in thousandths: both sides of the 0.1 threshold
RandomValues == {PassThreshold, PassThreshold + 1}
\* random.randint(lo, hi) is inclusive at both ends; the ends are enumerated
RandInt(lo, hi) == {lo, hi}
\* one draw of the loop body: the random() value and which end randint yields
Draws == [r : RandomValues, hi : BOOLEAN]

----------------------------------------------------------------------------
(* SQLite primitives *)

Min(a, b) == IF a < b THEN a ELSE b
Max(a, b) == IF a > b THEN a ELSE b

RECURSIVE MaxRowId(_)
MaxRowId(table) ==
  IF table = <<>> THEN 0 ELSE Max(Head(table).id, MaxRowId(Tail(table)))

\* AUTOINCREMENT: one more than the largest id the table ever held
NextId(table, last) == Max(last, MaxRowId(table)) + 1

\* INSERT with the id and created_at columns left to their defaults,
\* but overwriting the newest row instead of adding one
InsertOverwrite(table, last, fields, t) ==
  LET row == fields @@ [id |-> NextId(table, last), created_at |-> t]
  IN IF table = <<>> THEN <<row>>
     ELSE SubSeq(table, 1, Len(table) - 1) \o <<row>>

\* INSERT INTO table (...) VALUES (...): id and created_at take their defaults
Insert(table, last, fields, t) ==
  Append(table, fields @@ [id |-> NextId(table, last), created_at |-> t])

\* cursor.executemany(INSERT ..., rows)
RECURSIVE InsertMany(_, _, _, _)
InsertMany(table, last, rows, t) ==
  IF rows = <<>> THEN table
  ELSE InsertMany(Insert(table, last, Head(rows), t), last, Tail(rows), t)

\* the seeding with the fetched count ignored
SeedStepAlways(count, table, last, rows, t) == InsertMany(table, last, rows, t)

\* the seeding with the table counted again at the time of the insert
SeedStepRecheck(count, table, last, rows, t) ==
  IF count = 0 /\ Len(table) = 0 THEN InsertMany(table, last, rows, t) ELSE table

\* if cursor.fetchone()[0] == 0: cursor.executemany(INSERT ..., rows)
\* (count is the result of the SELECT COUNT(*) that ran before)
SeedStep(count, table, last, rows, t) ==
  IF count = 0 THEN InsertMany(table, last, rows, t) ELSE table

CountAll(table, s) == Len(table)

\* SELECT COUNT(*) FROM table WHERE status = s
CountStatus(table, s) == Len(SelectSeq(table, LAMBDA r : r.status = s))

RECURSIVE SumDuration(_)
SumDuration(table) ==
  IF table = <<>> THEN 0 ELSE Head(table).duration + SumDuration(Tail(table))

\* ORDER BY created_at DESC as SQLite executes it: a stable sort of the rows
\* in rowid order, so rows of the same second stay in insertion order
RECURSIVE OrderByCreatedAtDesc(_)
OrderByCreatedAtDesc(table) ==
  IF table = <<>> THEN <<>>
  ELSE LET h == Head(table)
           rest == OrderByCreatedAtDesc(Tail(table))
       IN SelectSeq(rest, LAMBDA r : r.created_at > h.created_at)
          \o <<h>>
          \o SelectSeq(rest, LAMBDA r : r.created_at <= h.created_at)

\* LIMIT n: a negative n is no limit at all in SQLite
SqlLimit(rows, n) ==
  IF n < 0 THEN rows ELSE SubSeq(rows, 1, Min(n, Len(rows)))

\* SELECT DISTINCT name: SQLite yields each name at its first occurrence
RECURSIVE DistinctNames(_)
DistinctNames(table) ==
  IF table = <<>> THEN <<>>
  ELSE LET before == DistinctNames(SubSeq(table, 1, Len(table) - 1))
           n == table[Len(table)].name
       IN IF \E i \in 1..Len(before) : before[i] = n
          THEN before ELSE Append(before, n)

\* DELETE that also takes the rows with a smaller id
DeleteUpTo(table, id) == SelectSeq(table, LAMBDA r : r.id > id)

\* DELETE FROM table WHERE id = ?
DeleteById(table, id) == SelectSeq(table, LAMBDA r : r.id # id)

\* the counters of sqlite_sequence after the tables were written
SeqAfter(t, b, c, a) ==
  [tests |-> Max(sqlite_sequence.tests, MaxRowId(t)),
   bugs |-> Max(sqlite_sequence.bugs, MaxRowId(b)),
   test_cases |-> Max(sqlite_sequence.test_cases, MaxRowId(c)),
   automation_reports |-> Max(sqlite_sequence.automation_reports, MaxRowId(a))]

----------------------------------------------------------------------------
(* Python's round(): nearest value; at an exact decimal tie the result       *)
(* depends on the binary value of the float, so both neighbours are allowed *)

Round(num, den) ==
  { q \in {num \div den, (num \div den) + 1} :
      2 * (IF q * den >= num THEN q * den - num ELSE num - q * den) <= den }

\* round(passed/total*100, 1) if total else 0, in tenths of a percent
PassRate(passed, total) ==
  IF total # 0 THEN Round(passed * 1000, total) ELSE {0}

\* avg = AVG(duration) or 0;  round(avg/1000, 2), in hundredths of a second
AvgDuration(table) ==
  IF Len(table) = 0 THEN {0} ELSE Round(SumDuration(table), 10 * Len(table))

----------------------------------------------------------------------------
(* run_tests: the pieces of the loop *)

NamesNoDefault(names) == names

\* [names] or ["Test 1", "Test 2", "Test 3"]
NamesOrDefault(names) == IF names = <<>> THEN DefaultNames ELSE names

TakeAll(names) == names

\* names[:10]
TakeNames(names) == SubSeq(names, 1, Min(NameLimit, Len(names)))

ClassifyError(r) == IF r > PassThreshold THEN "passed" ELSE "error"

\* "passed" if random.random() > 0.1 else "failed"
Classify(r) == IF r > PassThreshold THEN "passed" ELSE "failed"

DurationRangeSwapped(status) ==
  IF status = "passed" THEN RandInt(FailedLo, FailedHi) ELSE RandInt(PassedLo, PassedHi)

\* random.randint(100, 600) if status == "passed" else random.randint(3000, 5000)
DurationRange(status) ==
  IF status = "passed" THEN RandInt(PassedLo, PassedHi) ELSE RandInt(FailedLo, FailedHi)

Outcome(name, d) ==
  LET status == Classify(d.r)
      range == DurationRange(status)
      lo == CHOOSE x \in range : \A y \in range : x <= y
      hi == CHOOSE x \in range : \A y \in range : x >= y
  IN [name |-> name, status |-> status, duration |-> IF d.hi THEN hi ELSE lo]

\* the for loop: the k-th pass draws an outcome for the k-th name, INSERTs it
\* and appends TestResult(id=cur.lastrowid, ...), the id that INSERT assigned
RunLoop(table, last, names, draws, t) ==
  LET outcomes == [k \in 1..Len(names) |->
                     Outcome(names[k], draws[((k - 1) % Len(draws)) + 1])]
      after(k) == InsertMany(table, last, SubSeq(outcomes, 1, k), t)
  IN [table |-> after(Len(names)),
      results |-> [k \in 1..Len(names) |->
                     outcomes[k] @@ [id |-> NextId(after(k - 1), last)]]]

----------------------------------------------------------------------------
(* The handlers, each one atomic inside a process *)

NoResp == [status |-> 0]

\* lifespan startup: init_db() creates the tables and seeds the empty ones;
\* with a single process nothing runs between a count and the insert after it
init_db ==
  /\ tests' = SeedStep(Len(tests), tests, sqlite_sequence.tests, seed_tests, now)
  /\ bugs' = SeedStep(Len(bugs), bugs, sqlite_sequence.bugs, seed_bugs, now)
  /\ test_cases' = SeedStep(Len(test_cases), test_cases, sqlite_sequence.test_cases,
                            seed_cases, now)
  /\ automation_reports' = automation_reports
  /\ sqlite_sequence' = SeqAfter(tests', bugs', test_cases', automation_reports')
  /\ started' = TRUE
  /\ op' = "init_db" /\ arg' = 0 /\ resp' = NoResp
  /\ UNCHANGED now

\* GET /api/stats
get_stats ==
  LET total == Len(tests)
      passed == CountStatus(tests, "passed")
      failed == CountStatus(tests, "failed")
  IN /\ \E rate \in PassRate(passed, total), avg \in AvgDuration(tests) :
          resp' = [status |-> Ok, totalTests |-> total, passed |-> passed,
                   failed |-> failed, passRate |-> rate, avgDuration |-> avg,
                   coverage |-> Coverage]
     /\ op' = "get_stats" /\ arg' = 0
     /\ UNCHANGED <<store, now, started>>

\* GET /api/tests?limit=N
get_tests(limit) ==
  /\ resp' = [status |-> Ok, body |-> SqlLimit(OrderByCreatedAtDesc(tests), limit)]
  /\ op' = "get_tests" /\ arg' = limit
  /\ UNCHANGED <<store, now, started>>

\* POST /api/tests/run  (the loop's result is bound once, as `results` is)
run_tests(draws) ==
  LET names == NamesOrDefault(DistinctNames(tests))
  IN \E run \in {RunLoop(tests, sqlite_sequence.tests, TakeNames(names), draws, now)} :
       \E npassed \in {Len(SelectSeq(run.results, LAMBDA r : r.status = "passed"))} :
         /\ tests' = run.table
         /\ sqlite_sequence' = SeqAfter(tests', bugs, test_cases, automation_reports)
         /\ resp' = [status |-> Ok, success |-> TRUE,
                     message |-> [executed |-> Len(run.results), passed |-> npassed,
                                  failed |-> Len(run.results) - npassed],
                     results |-> run.results]
         /\ op' = "run_tests" /\ arg' = 0
         /\ UNCHANGED <<bugs, test_cases, automation_reports, now, started>>

\* POST /api/bugs
create_bug(bug) ==
  /\ bugs' = Insert(bugs, sqlite_sequence.bugs, bug, now)
  /\ sqlite_sequence' = SeqAfter(tests, bugs', test_cases, automation_reports)
  /\ resp' = [status |-> Ok, body |-> bug @@ [id |-> NextId(bugs, sqlite_sequence.bugs)]]
  /\ op' = "create_bug" /\ arg' = 0
  /\ UNCHANGED <<tests, test_cases, automation_reports, now, started>>

\* DELETE /api/bugs/{bug_id}
delete_bug(bug_id) ==
  LET after == DeleteById(bugs, bug_id)
      rowcount == Len(bugs) - Len(after)
  IN /\ IF rowcount = 0
        THEN bugs' = bugs /\ resp' = [status |-> NotFound, detail |-> "Bug not found"]
        ELSE bugs' = after /\ resp' = [status |-> Ok, deleted |-> bug_id]
     /\ op' = "delete_bug" /\ arg' = bug_id
     /\ UNCHANGED <<tests, test_cases, automation_reports, sqlite_sequence, now, started>>

\* POST /api/test-cases
create_test_case(tc) ==
  /\ test_cases' = Insert(test_cases, sqlite_sequence.test_cases, tc, now)
  /\ sqlite_sequence' = SeqAfter(tests, bugs, test_cases', automation_reports)
  /\ resp' = [status |-> Ok,
              body |-> tc @@ [id |-> NextId(test_cases, sqlite_sequence.test_cases)]]
  /\ op' = "create_test_case" /\ arg' = 0
  /\ UNCHANGED <<tests, bugs, automation_reports, now, started>>

\* DELETE /api/test-cases/{case_id}
delete_test_case(case_id) ==
  LET after == DeleteById(test_cases, case_id)
      rowcount == Len(test_cases) - Len(after)
  IN /\ IF rowcount = 0
        THEN /\ test_cases' = test_cases
             /\ resp' = [status |-> NotFound, detail |-> "Test case not found"]
        ELSE test_cases' = after /\ resp' = [status |-> Ok, deleted |-> case_id]
     /\ op' = "delete_test_case" /\ arg' = case_id
     /\ UNCHANGED <<tests, bugs, automation_reports, sqlite_sequence, now, started>>

\* POST /api/reports
create_report(report) ==
  /\ automation_reports' =
       Insert(automation_reports, sqlite_sequence.automation_reports, report, now)
  /\ sqlite_sequence' = SeqAfter(tests, bugs, test_cases, automation_reports')
  /\ resp' = [status |-> Ok,
              body |-> report @@ [id |-> NextId(automation_reports,
                                                sqlite_sequence.automation_reports)]]
  /\ op' = "create_report" /\ arg' = 0
  /\ UNCHANGED <<tests, bugs, test_cases, now, started>>

\* CURRENT_TIMESTAMP has a resolution of one second
Tick ==
  /\ now < MaxClock
  /\ now' = now + 1
  /\ UNCHANGED <<store, started, startups, op, arg, resp, race>>

----------------------------------------------------------------------------------------------------------------------------------------
(* Spec: one server process on a fresh database file, the endpoints over    *)
(* the tests table.  The lifespan hook runs init_db before any request is   *)
(* served; the process may be restarted.                                    *)

NoStore ==
  /\ tests = <<>> /\ bugs = <<>> /\ test_cases = <<>> /\ automation_reports = <<>>
  /\ sqlite_sequence = [tests |-> 0, bugs |-> 0, test_cases |-> 0,
                        automation_reports |-> 0]

Procs == 1..NumProcs
NoTxn == [tests |-> <<>>, bugs |-> <<>>, test_cases |-> <<>>]
NotCounted == [tests |-> -1, bugs |-> -1, test_cases |-> -1]

NoRace ==
  /\ pc = [p \in Procs |-> "off"]
  /\ observed = [p \in Procs |-> NotCounted]
  /\ pending = [p \in Procs |-> NoTxn]
  /\ writer = 0

Init ==
  /\ NoStore
  /\ now = 0 /\ started = FALSE /\ startups = 0
  /\ op = "none" /\ arg = 0 /\ resp = NoResp
  /\ NoRace

Startup ==
  /\ startups < MaxStartups
  /\ startups' = startups + 1
  /\ init_db
  /\ UNCHANGED race

StatsRequest == started /\ get_stats /\ UNCHANGED <<startups, race>>

TestsRequest ==
  started /\ (\E limit \in Limits : get_tests(limit)) /\ UNCHANGED <<startups, race>>

RunRequest ==
  /\ started
  /\ Len(tests) + Min(NameLimit, Len(DistinctNames(tests))) <= MaxTests
  /\ \E draws \in [1..RandomPeriod -> Draws] : run_tests(draws)
  /\ UNCHANGED <<startups, race>>

Next ==
  \/ Startup
  \/ StatsRequest
  \/ TestsRequest
  \/ RunRequest
  \/ Tick

Spec == Init /\ [][Next]_vars

----------------------------------------------------------------------------
(* SpecCrud: the same process, the endpoints over bugs, test_cases and      *)
(* automation_reports, all requests served within one second of the clock.  *)
(* No handler of this group reads or writes tests.                          *)

CreateBugRequest ==
  /\ started
  /\ sqlite_sequence.bugs < MaxId
  /\ \E bug \in BugInputs : create_bug(bug)
  /\ UNCHANGED <<startups, race>>

DeleteBugRequest ==
  started /\ (\E id \in Ids : delete_bug(id)) /\ UNCHANGED <<startups, race>>

CreateCaseRequest ==
  /\ started
  /\ sqlite_sequence.test_cases < MaxId
  /\ \E tc \in CaseInputs : create_test_case(tc)
  /\ UNCHANGED <<startups, race>>

DeleteCaseRequest ==
  started /\ (\E id \in Ids : delete_test_case(id)) /\ UNCHANGED <<startups, race>>

CreateReportRequest ==
  /\ started
  /\ sqlite_sequence.automation_reports < MaxReports
  /\ \E report \in ReportInputs : create_report(report)
  /\ UNCHANGED <<startups, race>>

NextCrud ==
  \/ Startup
  \/ CreateBugRequest
  \/ DeleteBugRequest
  \/ CreateCaseRequest
  \/ DeleteCaseRequest
  \/ CreateReportRequest

SpecCrud == Init /\ [][NextCrud]_vars

----------------------------------------------------------------------------
(* SpecStore: one request, of any endpoint, served on a database file that  *)
(* the process did not create (the file is persistent, and a handler can be *)
(* called on an application whose lifespan hook did not run).  The stored   *)
(* tests table is drawn from a bounded family: n rows over d names, of      *)
(* which passed are "passed", other have a status outside the enumeration   *)
(* and the rest are "failed"; bugs and test_cases hold their seed rows.     *)

StoredName(j) ==
  IF j <= Len(seed_tests) THEN seed_tests[j].name ELSE "Test " \o ToString(j)

StoredRow(i, d, passed, failed) ==
  [id |-> i,
   name |-> StoredName(((i - 1) % d) + 1),
   status |-> IF i <= passed THEN "passed"
              ELSE IF i <= passed + failed THEN "failed" ELSE "skipped",
   duration |-> IF i <= passed THEN PassedLo + i ELSE FailedLo + i,
   created_at |-> (i - 1) \div RowsPerSecond]

\* one name for all rows, the seeded names in turn, or a name per row
NameCounts(n) == {d \in {1, Len(seed_tests), n} : 1 <= d /\ d <= Max(n, 1)}

InitStore ==
  /\ \E n \in 0..MaxRows :
       \E d \in NameCounts(n), other \in 0..Min(MaxOther, n) :
         \E passed \in 0..(n - other) :
           /\ tests = [i \in 1..n |-> StoredRow(i, d, passed, n - other - passed)]
           /\ now = n \div RowsPerSecond
           /\ sqlite_sequence = [tests |-> n, bugs |-> Len(seed_bugs),
                                 test_cases |-> Len(seed_cases),
                                 automation_reports |-> 0]
  /\ bugs = InsertMany(<<>>, 0, seed_bugs, 0)
  /\ test_cases = InsertMany(<<>>, 0, seed_cases, 0)
  /\ automation_reports = <<>>
  /\ started = FALSE /\ startups = 0
  /\ op = "none" /\ arg = 0 /\ resp = NoResp
  /\ NoRace

FirstRequest == op = "none"

StoreStartup == FirstRequest /\ Startup

StoreStats == FirstRequest /\ get_stats /\ UNCHANGED <<startups, race>>

StoreTests ==
  /\ FirstRequest
  /\ \E limit \in Limits : get_tests(limit)
  /\ UNCHANGED <<startups, race>>

StoreRun ==
  /\ FirstRequest
  /\ \E draws \in [1..RandomPeriod -> Draws] : run_tests(draws)
  /\ UNCHANGED <<startups, race>>

StoreCreateBug ==
  FirstRequest /\ (\E bug \in BugInputs : create_bug(bug)) /\ UNCHANGED <<startups, race>>

StoreDeleteBug ==
  FirstRequest /\ (\E id \in Ids : delete_bug(id)) /\ UNCHANGED <<startups, race>>

StoreCreateCase ==
  FirstRequest /\ (\E tc \in CaseInputs : create_test_case(tc)) /\ UNCHANGED <<startups, race>>

StoreDeleteCase ==
  FirstRequest /\ (\E id \in Ids : delete_test_case(id)) /\ UNCHANGED <<startups, race>>

StoreCreateReport ==
  /\ FirstRequest
  /\ \E report \in ReportInputs : create_report(report)
  /\ UNCHANGED <<startups, race>>

NextStore ==
  \/ StoreStartup
  \/ StoreStats
  \/ StoreTests
  \/ StoreRun
  \/ StoreCreateBug
  \/ StoreDeleteBug
  \/ StoreCreateCase
  \/ StoreDeleteCase
  \/ StoreCreateReport

SpecStore == InitStore /\ [][NextStore]_vars

----------------------------------------------------------------------------
(* SpecRace: NumProcs processes start on the same fresh database file, each *)
(* running init_db statement by statement on its own connection.  Python's  *)
(* sqlite3 runs a SELECT outside any transaction and opens one before the   *)
(* first INSERT; SQLite admits one writer at a time, whose rows the other   *)
(* connections see at its commit.  A writer that finds the file locked      *)
(* waits, and gets "database is locked" when its busy timeout expires.      *)

\* the tables as connection p reads them
Visible(p) ==
  IF writer = p THEN pending[p]
  ELSE [tests |-> tests, bugs |-> bugs, test_cases |-> test_cases]

\* the table after the seeding step of connection p
Seeded(p, tbl, rows) ==
  SeedStep(observed[p][tbl], Visible(p)[tbl], sqlite_sequence[tbl], rows, now)

InitRace ==
  /\ NoStore
  /\ now = 0 /\ started = FALSE /\ startups = 0
  /\ op = "none" /\ arg = 0 /\ resp = NoResp
  /\ pc = [p \in Procs |-> "connect"]
  /\ observed = [p \in Procs |-> NotCounted]
  /\ pending = [p \in Procs |-> NoTxn]
  /\ writer = 0

\* sqlite3.connect and the four CREATE TABLE IF NOT EXISTS
Connect(p) ==
  /\ pc[p] = "connect"
  /\ pc' = [pc EXCEPT ![p] = "count_tests"]
  /\ UNCHANGED <<store, now, started, startups, op, arg, resp, observed, pending, writer>>

\* cursor.execute("SELECT COUNT(*) FROM tbl")
Count(p, tbl, here, next) ==
  /\ pc[p] = here
  /\ observed' = [observed EXCEPT ![p][tbl] = Len(Visible(p)[tbl])]
  /\ pc' = [pc EXCEPT ![p] = next]
  /\ UNCHANGED <<store, now, started, startups, op, arg, resp, pending, writer>>

\* if cursor.fetchone()[0] == 0: cursor.executemany(INSERT ...)
Seed(p, tbl, rows, here, next) ==
  /\ pc[p] = here
  /\ IF Seeded(p, tbl, rows) = Visible(p)[tbl]
     THEN UNCHANGED <<pending, writer>>
     ELSE /\ writer \in {0, p}
          /\ writer' = p
          /\ pending' = [pending EXCEPT ![p] = [Visible(p) EXCEPT ![tbl] = Seeded(p, tbl, rows)]]
  /\ pc' = [pc EXCEPT ![p] = next]
  /\ UNCHANGED <<store, now, started, startups, op, arg, resp, observed>>

CountTests(p) == Count(p, "tests", "count_tests", "seed_tests")
SeedTests(p) == Seed(p, "tests", seed_tests, "seed_tests", "count_bugs")
CountBugs(p) == Count(p, "bugs", "count_bugs", "seed_bugs")
SeedBugs(p) == Seed(p, "bugs", seed_bugs, "seed_bugs", "count_cases")
CountCases(p) == Count(p, "test_cases", "count_cases", "seed_cases")
SeedCases(p) == Seed(p, "test_cases", seed_cases, "seed_cases", "commit")

\* the INSERT raises sqlite3.OperationalError: another connection holds the lock
Locked(p) ==
  /\ \/ pc[p] = "seed_tests" /\ observed[p].tests = 0
     \/ pc[p] = "seed_bugs" /\ observed[p].bugs = 0
     \/ pc[p] = "seed_cases" /\ observed[p].test_cases = 0
  /\ writer \notin {0, p}
  /\ pc' = [pc EXCEPT ![p] = "failed"]
  /\ UNCHANGED <<store, now, started, startups, op, arg, resp, observed, pending, writer>>

\* conn.commit(); conn.close()
Commit(p) ==
  /\ pc[p] = "commit"
  /\ IF writer = p
     THEN /\ tests' = pending[p].tests
          /\ bugs' = pending[p].bugs
          /\ test_cases' = pending[p].test_cases
          /\ sqlite_sequence' = SeqAfter(tests', bugs', test_cases', automation_reports)
          /\ writer' = 0
          /\ pending' = [pending EXCEPT ![p] = NoTxn]
     ELSE UNCHANGED <<tests, bugs, test_cases, sqlite_sequence, writer, pending>>
  /\ pc' = [pc EXCEPT ![p] = "done"]
  /\ UNCHANGED <<automation_reports, now, started, startups, op, arg, resp, observed>>

NextRace ==
  \E p \in Procs :
    \/ Connect(p)
    \/ CountTests(p)
    \/ SeedTests(p)
    \/ CountBugs(p)
    \/ SeedBugs(p)
    \/ CountCases(p)
    \/ SeedCases(p)
    \/ Locked(p)
    \/ Commit(p)

SpecRace == InitRace /\ [][NextRace]_vars

----------------------------------------------------------------------------
(* Properties *)

\* the step is the handling of a request of this name (the clock stands still
\* while a handler runs; a Tick leaves op as it was)
Served(name) == op' = name /\ now' = now

Names(table) == {table[i].name : i \in DOMAIN table}
WithStatus(table, s) == {i \in DOMAIN table : table[i].status = s}
Abs(x) == IF x < 0 THEN -x ELSE x
Columns(row) == [id |-> row.id, name |-> row.name, status |-> row.status,
                 duration |-> row.duration]

\* C1: seeding is idempotent.  The first init_db on the empty store leaves 5
\* tests, 2 bugs and 2 test cases; an init_db that runs right after an init_db,
\* with no request in between, leaves the row count of every table as it was
\* (so 5, 2 and 2 after the second run).
C1_SeedingIdempotent ==
  [][ /\ (op' = "init_db" /\ startups = 0) =>
           Len(tests') = 5 /\ Len(bugs') = 2 /\ Len(test_cases') = 2
      /\ (op = "init_db" /\ op' = "init_db" /\ startups' = startups + 1) =>
           /\ Len(tests') = Len(tests)
           /\ Len(bugs') = Len(bugs)
           /\ Len(test_cases') = Len(test_cases)
           /\ Len(automation_reports') = Len(automation_reports)
           /\ (startups = 1 => Len(tests') = 5 /\ Len(bugs') = 2 /\ Len(test_cases') = 2)
    ]_vars

\* init_db has run twice and the tables hold the seed rows once
C1_Witness ==
  /\ op = "init_db" /\ startups = 2
  /\ Len(tests) = 5 /\ Len(bugs) = 2 /\ Len(test_cases) = 2

\* C2: on a tests table of N passed and M failed rows and no others, get_stats
\* returns totalTests = N+M, passed = N, failed = M and, when N+M > 0, the
\* passRate that is N/(N+M)*100 rounded to one decimal; on the empty table it
\* returns zeros for totalTests, passed, failed, passRate and avgDuration.
C2_StatsOfPassedAndFailed ==
  op = "get_stats" =>
    LET N == Cardinality(WithStatus(tests, "passed"))
        M == Cardinality(WithStatus(tests, "failed"))
    IN N + M = Len(tests) =>
         /\ resp.status = Ok
         /\ resp.totalTests = N + M /\ resp.passed = N /\ resp.failed = M
         /\ N + M > 0 => 2 * Abs(resp.passRate * (N + M) - 1000 * N) <= N + M
         /\ N + M = 0 => resp.passRate = 0 /\ resp.avgDuration = 0

\* get_stats answered on one passed and two failed rows: 33.3 percent
C2_Witness ==
  /\ op = "get_stats" /\ Len(tests) = 3
  /\ Cardinality(WithStatus(tests, "passed")) = 1
  /\ Cardinality(WithStatus(tests, "failed")) = 2
  /\ resp.passRate = 333

\* what a DELETE by id owes: the row gone and success, or 404 and no change
DeleteContract(before, after, id, answer) ==
  IF \E i \in DOMAIN before : before[i].id = id
  THEN /\ answer.status = Ok
       /\ Len(after) = Len(before) - 1
       /\ \A i \in DOMAIN before : before[i].id # id =>
            \E j \in DOMAIN after : after[j] = before[i]
  ELSE answer.status = NotFound /\ after = before

\* C3: delete_bug and delete_test_case on an id that is not in the table
\* answer 404 and leave the table as it was; on an id that is in the table
\* they remove that one row, keep every other row, and answer success.
C3_DeleteById ==
  [][ /\ Served("delete_bug") => DeleteContract(bugs, bugs', arg', resp')
      /\ Served("delete_test_case") =>
           DeleteContract(test_cases, test_cases', arg', resp')
    ]_vars

\* a delete of an absent bug id was answered 404 with both seed rows in place
C3_Witness ==
  /\ op = "delete_bug" /\ resp.status = NotFound
  /\ Len(bugs) = 2 /\ \A i \in DOMAIN bugs : bugs[i].id # arg

\* C4: one run_tests inserts at most 10 rows and returns at most 10 results,
\* with no name twice among them, however many names the table holds.
C4_AtMostTenNames ==
  [][ Served("run_tests") =>
        /\ Len(tests') - Len(tests) <= 10
        /\ Len(resp'.results) <= 10
        /\ \A i, j \in DOMAIN resp'.results :
             resp'.results[i].name = resp'.results[j].name => i = j
    ]_vars

\* run_tests answered on a table of more than 10 names
C4_Witness ==
  /\ op = "run_tests"
  /\ Cardinality(Names(tests)) > 10
  /\ Len(resp.results) = 10

\* C5 as stated: run_tests on the empty tests table inserts and returns
\* exactly 5 records.
C5_FiveDefaults ==
  [][ (Served("run_tests") /\ Len(tests) = 0) =>
        Len(tests') = 5 /\ Len(resp'.results) = 5
    ]_vars

\* C5 amended: run_tests on the empty tests table falls back to the fixed
\* list "Test 1", "Test 2", "Test 3", so it inserts and returns exactly 3
\* records, one per default name.
C5_ThreeDefaults ==
  [][ (Served("run_tests") /\ Len(tests) = 0) =>
        /\ Len(tests') = 3 /\ Len(resp'.results) = 3
        /\ \A i \in 1..3 :
             /\ resp'.results[i].name = << "Test 1", "Test 2", "Test 3" >>[i]
             /\ tests'[i].name = resp'.results[i].name
    ]_vars

\* run_tests answered on the empty table
C5_Witness ==
  /\ op = "run_tests" /\ Len(tests) = 3
  /\ tests[1].name = "Test 1" /\ tests[1].id = 1

\* C6: every record run_tests returns, and the row inserted for it, is
\* "passed" with a duration in [100, 600] or "failed" with one in [3000, 5000].
C6_StatusAndDuration ==
  op = "run_tests" =>
    \A i \in DOMAIN resp.results :
      LET r == resp.results[i]
      IN /\ r.status \in {"passed", "failed"}
         /\ r.status = "passed" => 100 <= r.duration /\ r.duration <= 600
         /\ r.status = "failed" => 3000 <= r.duration /\ r.duration <= 5000
         /\ \E j \in DOMAIN tests : Columns(tests[j]) = r

\* one run_tests returned a passed and a failed record
C6_Witness ==
  /\ op = "run_tests"
  /\ \E i, j \in DOMAIN resp.results :
       resp.results[i].status = "passed" /\ resp.results[j].status = "failed"

\* C7 as stated: for every integer limit N, get_tests returns at most N
\* records, most recent first, and omits no record more recent than one it
\* returns.
C7_AtMostLimit ==
  op = "get_tests" =>
    /\ Len(resp.body) <= arg
    /\ \A i, j \in DOMAIN resp.body :
         i < j => resp.body[i].created_at >= resp.body[j].created_at
    /\ \A k \in DOMAIN tests :
         (\A i \in DOMAIN resp.body : resp.body[i].id # tests[k].id) =>
           \A i \in DOMAIN resp.body : tests[k].created_at <= resp.body[i].created_at

\* C8: run_tests only appends.  It adds one row per selected name, min(10,
\* number of distinct names) rows when a name exists; the results are the
\* added rows with their ids; the rows that were there stay as they were.
\* No request of the API, whatever the stored tables, makes the tests table
\* shorter.
C8_RunOnlyAppends ==
  [][ /\ Len(tests') >= Len(tests)
      /\ Served("run_tests") =>
           LET n == Len(tests)
               k == Cardinality(Names(tests))
           IN /\ SubSeq(tests', 1, n) = tests
              /\ k >= 1 => Len(tests') = n + (IF k < 10 THEN k ELSE 10)
              /\ Len(resp'.results) = Len(tests') - n
              /\ \A i \in DOMAIN resp'.results :
                   /\ resp'.results[i] = Columns(tests'[n + i])
                   /\ \A j \in 1..n : tests[j].id # resp'.results[i].id
    ]_vars

\* run_tests answered on the seeded table: 5 rows added to the 5 seed rows
C8_Witness ==
  /\ op = "run_tests" /\ Len(tests) = 10 /\ Len(resp.results) = 5
  /\ resp.results[1].id = 6

\* C9: init_db counts and inserts in two steps and holds no lock between
\* them: a connection that is about to seed tests is not the writer yet, and
\* every connection that counted 0 tests and committed has added its 5 seed
\* rows, whatever the table held by then.  (The state with the seed rows
\* duplicated is C9_Witness.)
C9_SeedRace ==
  /\ \A p \in Procs : pc[p] = "seed_tests" => writer # p
  /\ Len(tests) = 5 * Cardinality({p \in Procs : pc[p] = "done" /\ observed[p].tests = 0})

\* two executions both saw count 0 and both inserted: more than 5 tests rows
C9_Witness ==
  /\ Len(tests) > 5
  /\ \E p, q \in Procs : p # q /\ observed[p].tests = 0 /\ observed[q].tests = 0
                         /\ pc[p] = "done" /\ pc[q] = "done"

\* C10: every row of the tests table has status "passed" or "failed", and
\* get_stats returns passed + failed = totalTests, totalTests >= 5 and a
\* passRate between 0 and 100.
C10_StatusDomain ==
  /\ \A i \in DOMAIN tests : tests[i].status \in {"passed", "failed"}
  /\ op = "get_stats" =>
       /\ resp.passed + resp.failed = resp.totalTests
       /\ resp.totalTests >= 5
       /\ 0 <= resp.passRate /\ resp.passRate <= 1000

\* get_stats answered after a run that recorded a failure
C10_Witness ==
  /\ op = "get_stats" /\ resp.failed > 0 /\ resp.passed >= 5
  /\ resp.totalTests = 10

====
